---------------------------- MODULE Spec2Model ----------------------------
(***************************************************************************)
(* A model of the register VM and its assembler: the nom parsers of        *)
(* src/assembler/asm_parsers.rs, the two-phase assembler of                *)
(* src/assembler/mod.rs, the opcode tables of src/instruction.rs and the   *)
(* decode/execute loop of src/vm.rs.                                       *)
(*                                                                         *)
(* Source text is a sequence of one-character strings.  Rust vectors are   *)
(* 0-indexed, the sequences here 1-indexed: program[pc] of the source is   *)
(* program[pc + 1] here.                                                   *)
(***************************************************************************)
EXTENDS Integers, Sequences, FiniteSets, TLC

(***************************************************************************)
(* Characters                                                              *)
(***************************************************************************)
LowerSeq ==
    << "a", "b", "c", "d", "e", "f", "g", "h", "i", "j", "k", "l", "m",
       "n", "o", "p", "q", "r", "s", "t", "u", "v", "w", "x", "y", "z" >>

UpperSeq ==
    << "A", "B", "C", "D", "E", "F", "G", "H", "I", "J", "K", "L", "M",
       "N", "O", "P", "Q", "R", "S", "T", "U", "V", "W", "X", "Y", "Z" >>

DigitSeq == << "0", "1", "2", "3", "4", "5", "6", "7", "8", "9" >>

Range(s) == { s[i] : i \in 1..Len(s) }

Alpha == Range(LowerSeq) \cup Range(UpperSeq)

Digit == Range(DigitSeq)

AlphaNumeric == Alpha \cup Digit

\* the separator set of nom's sp, used by ws!
Whitespace == { " ", "\t", "\r", "\n" }

DigitVal(c) == (CHOOSE i \in 1..10 : DigitSeq[i] = c) - 1

ToUpper(c) ==
    IF c \in Range(LowerSeq)
    THEN UpperSeq[CHOOSE i \in 1..26 : LowerSeq[i] = c]
    ELSE c

UpperCase(s) == [ i \in 1..Len(s) |-> ToUpper(s[i]) ]

Drop(s, n) == SubSeq(s, n + 1, Len(s))

Take(s, n) == SubSeq(s, 1, n)

\* length of the longest prefix of i made of characters of S
RECURSIVE PrefixLen(_, _)
PrefixLen(i, S) ==
    IF i # << >> /\ Head(i) \in S THEN 1 + PrefixLen(Tail(i), S) ELSE 0

(***************************************************************************)
(* Integer widths                                                          *)
(***************************************************************************)
MaxI32 == 2147483647

MinI32 == (-MaxI32) - 1

MaxU8 == 255

\* the decimal value of a digit string, or MaxI32 + 1 written as -1 when it
\* does not fit an i32 (str::parse::<i32> returns Err there)
RECURSIVE DecimalFrom(_, _)
DecimalFrom(acc, ds) ==
    IF ds = << >> THEN acc
    ELSE IF acc = -1 THEN -1
    ELSE LET d == DigitVal(Head(ds))
         IN  IF acc > (MaxI32 - d) \div 10
             THEN -1
             ELSE DecimalFrom(acc * 10 + d, Tail(ds))

Decimal(ds) == DecimalFrom(0, ds)

(***************************************************************************)
(* Tokens (assembler/mod.rs) and the opcode tables (instruction.rs)        *)
(***************************************************************************)
None == [ type |-> "None" ]

\* Some(v) of an Option
Some(v) == [ type |-> "Some", val |-> v ]

Op(code) == [ type |-> "Op", code |-> code ]

Register(n) == [ type |-> "Register", reg_num |-> n ]

IntegerOperand(v) == [ type |-> "IntegerOperand", value |-> v ]

LabelDeclaration(name) == [ type |-> "LabelDeclaration", name |-> name ]

LabelUsage(name) == [ type |-> "LabelUsage", name |-> name ]

Directive(name) == [ type |-> "Directive", name |-> name ]

\* the mnemonics of impl From<CompleteStr> for Opcode, in lower case
Mnemonics ==
    << << <<"e","q">>, "EQ" >>,              << <<"g","t">>, "GT" >>,
       << <<"l","t">>, "LT" >>,              << <<"a","d","d">>, "ADD" >>,
       << <<"s","u","b">>, "SUB" >>,         << <<"m","u","l">>, "MUL" >>,
       << <<"d","i","v">>, "DIV" >>,         << <<"h","l","t">>, "HLT" >>,
       << <<"j","m","p">>, "JMP" >>,         << <<"n","e","q">>, "NEQ" >>,
       << <<"g","t","e">>, "GTE" >>,         << <<"l","t","e">>, "LTE" >>,
       << <<"j","e","q">>, "JEQ" >>,         << <<"n","o","p">>, "NOP" >>,
       << <<"i","n","c">>, "INC" >>,         << <<"d","e","c">>, "DEC" >>,
       << <<"l","o","a","d">>, "LOAD" >>,    << <<"a","l","o","c">>, "ALOC" >>,
       << <<"j","m","p","f">>, "JMPF" >>,    << <<"j","m","p","b">>, "JMPB" >>,
       << <<"j","e","q","d">>, "JEQD" >>  >>

\* impl From<CompleteStr> for Opcode: all lower case or all upper case
OpcodeFromStr(v) ==
    LET hits == { i \in 1..Len(Mnemonics) :
                    \/ v = Mnemonics[i][1]
                    \/ v = UpperCase(Mnemonics[i][1]) }
    IN  IF hits = {} THEN "IGL" ELSE Mnemonics[CHOOSE i \in hits : TRUE][2]

\* Deliberately wrong variants of OpcodeFromByte: the table without the
\* three last opcodes; and the table entered modulo its length.
ByteOrder ==
    << "HLT", "LOAD", "ADD", "SUB", "MUL", "DIV", "JMP", "JMPF", "JMPB", "EQ",
       "NEQ", "GT", "LT", "GTE", "LTE", "JEQD", "JEQ", "NOP", "ALOC", "INC",
       "DEC" >>

OpcodeFromByteShort(v) == IF v < 18 THEN ByteOrder[v + 1] ELSE "IGL"

OpcodeFromByteModulo(v) == ByteOrder[(v % 21) + 1]

\* impl From<u8> for Opcode
OpcodeFromByte(v) ==
    CASE v = 0 -> "HLT"   [] v = 1 -> "LOAD"  [] v = 2 -> "ADD"
      [] v = 3 -> "SUB"   [] v = 4 -> "MUL"   [] v = 5 -> "DIV"
      [] v = 6 -> "JMP"   [] v = 7 -> "JMPF"  [] v = 8 -> "JMPB"
      [] v = 9 -> "EQ"    [] v = 10 -> "NEQ"  [] v = 11 -> "GT"
      [] v = 12 -> "LT"   [] v = 13 -> "GTE"  [] v = 14 -> "LTE"
      [] v = 15 -> "JEQD" [] v = 16 -> "JEQ"  [] v = 17 -> "NOP"
      [] v = 18 -> "ALOC" [] v = 19 -> "INC"  [] v = 20 -> "DEC"
      [] OTHER -> "IGL"

\* A deliberately wrong variant of OpcodeToByte: the position in the table,
\* and 0 for an Opcode that is not in it.
OpcodeToByteDefaultZero(code) ==
    IF \E i \in 1..Len(ByteOrder) : ByteOrder[i] = code
    THEN (CHOOSE i \in 1..Len(ByteOrder) : ByteOrder[i] = code) - 1
    ELSE 0

\* impl Into<u8> for &Opcode
OpcodeToByte(code) ==
    CASE code = "HLT" -> 0    [] code = "LOAD" -> 1  [] code = "ADD" -> 2
      [] code = "SUB" -> 3    [] code = "MUL" -> 4   [] code = "DIV" -> 5
      [] code = "JMP" -> 6    [] code = "JMPF" -> 7  [] code = "JMPB" -> 8
      [] code = "EQ" -> 9     [] code = "NEQ" -> 10  [] code = "GT" -> 11
      [] code = "LT" -> 12    [] code = "GTE" -> 13  [] code = "LTE" -> 14
      [] code = "JEQD" -> 15  [] code = "JEQ" -> 16  [] code = "NOP" -> 17
      [] code = "ALOC" -> 18  [] code = "INC" -> 19  [] code = "DEC" -> 20
      [] OTHER -> 255

\* enum Opcode
Opcodes == { ByteOrder[i] : i \in 1..Len(ByteOrder) } \cup { "IGL" }

\* a byte and an Opcode before any conversion
Converting(b, o) ==
    [ byte0 |-> b, opcode0 |-> o, byte |-> b, opcode |-> o, steps |-> << >> ]

(***************************************************************************)
(* The nom parsers (asm_parsers.rs).  A parser maps its input to           *)
(*   [st |-> "ok", rest |-> the input left, val |-> the value],            *)
(*   [st |-> "err"]   (nom's Err(Error): the caller may try another), or   *)
(*   [st |-> "panic"] (an unwrap() of a failed str::parse).                *)
(* ws! skips the separator set before each sub-parser and after the last.  *)
(***************************************************************************)
POk(rest, val) == [ st |-> "ok", rest |-> rest, val |-> val ]

PErr == [ st |-> "err" ]

PPanic == [ st |-> "panic" ]

sp(i) == Drop(i, PrefixLen(i, Whitespace))

\* tag!(c) for a one-character tag
tag(c, i) == IF i # << >> /\ Head(i) = c THEN POk(Tail(i), c) ELSE PErr

\* alpha1, digit, alphanumeric: one or more characters of the class
many_chars(S, i) ==
    LET n == PrefixLen(i, S)
    IN  IF n = 0 THEN PErr ELSE POk(Drop(i, n), Take(i, n))

alpha1(i) == many_chars(Alpha, i)

digit(i) == many_chars(Digit, i)

alphanumeric(i) == many_chars(AlphaNumeric, i)

\* opt!(p): an error of p is None with the input untouched
opt(r, i) == IF r.st = "err" THEN POk(i, None) ELSE r

\* do_parse!(a >> b): b runs on what a left; an error or panic of a ends it
and_then(r, K(_)) == IF r.st = "ok" THEN K(r) ELSE r

\* alt!(a | b): b runs on the same input when a ends in an error
or_else(r, K(_)) == IF r.st = "err" THEN K(r) ELSE r

opcode_parser(i) ==
    and_then(alpha1(i), LAMBDA r : POk(r.rest, Op(OpcodeFromStr(r.val))))

\* reg_num.parse::<u8>().unwrap()
register_token(n, rest) ==
    IF n = -1 \/ n > MaxU8 THEN PPanic ELSE POk(rest, Register(n))

register(i) ==
    and_then(tag("$", sp(i)), LAMBDA t :
    and_then(digit(sp(t.rest)), LAMBDA d :
    register_token(Decimal(d.val), sp(d.rest))))

\* value.parse::<i32>().unwrap()
integer_token(n, rest) ==
    IF n = -1 THEN PPanic ELSE POk(rest, IntegerOperand(n))

integer_operand(i) ==
    and_then(tag("#", sp(i)), LAMBDA t :
    and_then(digit(sp(t.rest)), LAMBDA d :
    integer_token(Decimal(d.val), sp(d.rest))))

label_usage(i) ==
    and_then(tag("@", sp(i)), LAMBDA t :
    and_then(alphanumeric(sp(t.rest)), LAMBDA a :
    POk(sp(a.rest), LabelUsage(a.val))))

label_declaration(i) ==
    and_then(alphanumeric(sp(i)), LAMBDA a :
    and_then(tag(":", sp(a.rest)), LAMBDA t :
    POk(sp(t.rest), LabelDeclaration(a.val))))

\* alt!(integer_operand | register | label_usage)
operand(i) ==
    or_else(integer_operand(i), LAMBDA e1 :
    or_else(register(i), LAMBDA e2 : label_usage(i)))

directive_declaration(i) ==
    and_then(tag(".", i), LAMBDA t :
    and_then(alpha1(t.rest), LAMBDA a : POk(a.rest, Directive(a.val))))

AssemblerInstruction(opcode, label, directive, o1, o2, o3) ==
    [ opcode |-> opcode, label |-> label, directive |-> directive,
      operand1 |-> o1, operand2 |-> o2, operand3 |-> o3 ]

\* the separator before a sub-parser: skipped under ws! only
sep(wsep, i) == IF wsep THEN sp(i) ELSE i

\* opt!(operand)
opt_operand(i) == opt(operand(i), i)

\* the three opt!(operand) of a record, then the record; wsep is TRUE under
\* ws! (directive_combined), where the separator is skipped before each
\* sub-parser and after the last
three_operands(i, opcode, label, directive, wsep) ==
    and_then(opt_operand(sep(wsep, i)), LAMBDA o1 :
    and_then(opt_operand(sep(wsep, o1.rest)), LAMBDA o2 :
    and_then(opt_operand(sep(wsep, o2.rest)), LAMBDA o3 :
    POk(sep(wsep, o3.rest),
        AssemblerInstruction(opcode, label, directive, o1.val, o2.val, o3.val)))))

\* opt!(label_declaration)
opt_label_declaration(i) == opt(label_declaration(i), i)

instruction_combined(i) ==
    and_then(opt_label_declaration(i), LAMBDA l :
    and_then(opcode_parser(l.rest), LAMBDA o :
    three_operands(o.rest, o.val, l.val, None, FALSE)))

directive_combined(i) ==
    and_then(opt_label_declaration(sp(i)), LAMBDA l :
    and_then(directive_declaration(sp(l.rest)), LAMBDA n :
    three_operands(n.rest, None, l.val, n.val, TRUE)))

directive(i) == directive_combined(i)

\* alt!(instruction_combined | directive)
instruction(i) == or_else(instruction_combined(i), LAMBDA e : directive(i))

\* many1!(instruction), after the first record: the loop stops at the
\* first error, or at a record that consumed nothing, and keeps what was
\* parsed
RECURSIVE many_instructions(_, _)
many_more(i, acc, r) ==
    CASE r.st = "panic" -> PPanic
      [] r.st = "err" -> POk(i, acc)
      [] r.st = "ok" ->
            IF Len(r.rest) = Len(i) THEN POk(i, acc)
            ELSE many_instructions(r.rest, Append(acc, r.val))

many_instructions(i, acc) == many_more(i, acc, instruction(i))

\* program: many1!(instruction)
program_parser(i) ==
    and_then(instruction(i), LAMBDA r : many_instructions(r.rest, << r.val >>))

(***************************************************************************)
(* The assembler (assembler/mod.rs)                                        *)
(***************************************************************************)
PIE_HEADER_PREFIX == << 45, 50, 49, 45 >>

PIE_HEADER_LENGTH == 64

Symbol(name, offset) == [ name |-> name, offset |-> offset ]

\* Deliberately wrong variants of symbol_value, against which the properties
\* of label resolution are tested: the last symbol of that name instead of
\* the first; and offset 0 instead of None for a name that is not in the table.
symbol_value_last(symbols, s) ==
    IF \A k \in 1..Len(symbols) : symbols[k].name # s THEN -1
    ELSE symbols[CHOOSE k \in 1..Len(symbols) :
                    /\ symbols[k].name = s
                    /\ \A j \in (k + 1)..Len(symbols) : symbols[j].name # s].offset

symbol_value_or_zero(symbols, s) ==
    IF \A k \in 1..Len(symbols) : symbols[k].name # s THEN 0
    ELSE symbols[CHOOSE k \in 1..Len(symbols) :
                    /\ symbols[k].name = s
                    /\ \A j \in 1..(k - 1) : symbols[j].name # s].offset

\* SymbolTable::symbol_value: the first symbol of that name, or -1 for None
RECURSIVE symbol_value(_, _)
symbol_value(symbols, s) ==
    IF symbols = << >> THEN -1
    ELSE IF Head(symbols).name = s THEN Head(symbols).offset
    ELSE symbol_value(Tail(symbols), s)

\* SymbolTable::add_symbol
add_symbol(symbols, s) == Append(symbols, s)

\* A deliberately wrong variant of upper_byte: the mask without the shift.
upper_byte_unshifted(v) == v % 256

\* the two bytes of an integer or offset: ((0xFF00 & v) >> 8) as u8, (0xFF & v) as u8
upper_byte(v) == (v \div 256) % 256

\* A deliberately wrong variant of lower_byte: a cast that saturates.
lower_byte_saturating(v) == IF v > MaxU8 THEN MaxU8 ELSE v

lower_byte(v) == v % 256

\* one operand of to_bytes: the bytes it appends, or a panic
operand_bytes(token, symbol_tbl) ==
    CASE token.type = "Register" ->
            [ st |-> "ok", bytes |-> << token.reg_num >> ]
      [] token.type = "IntegerOperand" ->
            [ st |-> "ok",
              bytes |-> << upper_byte(token.value), lower_byte(token.value) >> ]
      [] token.type = "LabelUsage" ->
            LET offset == symbol_value(symbol_tbl, token.name)
            IN  IF offset = -1
                THEN [ st |-> "panic", msg |-> "LabelUsage token has no offset" ]
                ELSE [ st |-> "ok",
                       bytes |-> << upper_byte(offset), lower_byte(offset) >> ]
      [] token.type = "None" -> [ st |-> "ok", bytes |-> << >> ]
      [] OTHER -> [ st |-> "panic", msg |-> "operand should not contain this token" ]

\* the zero padding of to_bytes: while result.len() < 4 { result.push(0) }
pad_to_4(result) == result \o [ k \in 1..(4 - Len(result)) |-> 0 ]

\* to_bytes after its operand loop: the assertion and the zero padding
checked_len(r) ==
    IF r.st = "panic" THEN r
    ELSE IF Len(r.bytes) > 4
    THEN [ st |-> "panic", msg |-> "assertion failed: result.len() <= 4" ]
    ELSE [ st |-> "ok", bytes |-> pad_to_4(r.bytes) ]

\* result.push(..) of the bytes b of one operand
push_bytes(r, b) ==
    IF b.st = "panic" THEN b ELSE [ st |-> "ok", bytes |-> r.bytes \o b.bytes ]

\* one turn of the loop over the operands of to_bytes; a panic ends it
push_operand(r, token, symbol_tbl) ==
    IF r.st = "panic" THEN r
    ELSE push_bytes(r, operand_bytes(token, symbol_tbl))

\* the opcode byte of to_bytes: none for a record without an opcode
opcode_bytes(ins) ==
    [ st |-> "ok",
      bytes |-> IF ins.opcode.type = "Op"
                THEN << OpcodeToByte(ins.opcode.code) >>
                ELSE << >> ]

\* AssemblerInstruction::to_bytes
to_bytes(ins, symbol_tbl) ==
    checked_len(
        push_operand(
            push_operand(
                push_operand(opcode_bytes(ins), ins.operand1, symbol_tbl),
                ins.operand2, symbol_tbl),
            ins.operand3, symbol_tbl))

\* the symbol extract_labels adds for a record at pos, if it has a label
with_label(symbols, ins, pos) ==
    IF ins.label.type = "LabelDeclaration"
    THEN add_symbol(symbols, Symbol(ins.label.name, pos))
    ELSE symbols

\* Assembler::extract_labels: pos is 4 * (index of the record)
RECURSIVE extract_labels(_, _, _)
extract_labels(symbols, instructions, pos) ==
    IF instructions = << >> THEN symbols
    ELSE extract_labels(with_label(symbols, Head(instructions), pos),
                        Tail(instructions), pos + 4)

\* program.append(&mut bytes)
append_bytes(acc, b) ==
    IF b.st = "panic" THEN b ELSE [ st |-> "ok", bytes |-> acc.bytes \o b.bytes ]

\* Assembler::process_second_phase: the records' bytes in order; a panic of
\* to_bytes ends it
RECURSIVE second_phase_loop(_, _, _)
second_phase_loop(acc, symbols, instructions) ==
    IF acc.st = "panic" \/ instructions = << >> THEN acc
    ELSE second_phase_loop(append_bytes(acc, to_bytes(Head(instructions), symbols)),
                           symbols, Tail(instructions))

process_second_phase(symbols, instructions) ==
    second_phase_loop([ st |-> "ok", bytes |-> << >> ], symbols, instructions)

\* A deliberately wrong variant of write_pie_header: the prefix alone,
\* without the zero bytes up to PIE_HEADER_LENGTH.
write_pie_header_unpadded == PIE_HEADER_PREFIX

\* Assembler::write_pie_header
write_pie_header ==
    PIE_HEADER_PREFIX
        \o [ k \in 1..(PIE_HEADER_LENGTH - Len(PIE_HEADER_PREFIX)) |-> 0 ]

\* assemble after the two phases: a panic of the second leaves the symbols
\* of the first and self.program as it was
assembled_result(asm, instructions, symbols1, body) ==
    IF body.st = "panic"
    THEN [ ret |-> "panic", bytes |-> << >>,
           asm |-> [ asm EXCEPT !.symbols = symbols1, !.phase = "Second" ] ]
    ELSE [ ret |-> "Some",
           bytes |-> write_pie_header \o body.bytes,
           asm |-> [ symbols |-> symbols1, phase |-> "Second",
                     program |-> Some(instructions) ] ]

\* assemble on a parsed program: process_first_phase, process_second_phase
assemble_phases(asm, instructions, symbols1) ==
    assembled_result(asm, instructions, symbols1,
                     process_second_phase(symbols1, instructions))

\* A deliberately wrong variant of assemble_parsed: a source that does not
\* parse clears the stored program.
assemble_parsed_clearing(asm, p) ==
    CASE p.st = "err" -> [ ret |-> "None", bytes |-> << >>,
                           asm |-> [ asm EXCEPT !.program = None ] ]
      [] p.st = "panic" -> [ ret |-> "panic", bytes |-> << >>, asm |-> asm ]
      [] p.st = "ok" ->
            assemble_phases(asm, p.val, extract_labels(asm.symbols, p.val, 0))

\* assemble on the result p of the parser
assemble_parsed(asm, p) ==
    CASE p.st = "err" -> [ ret |-> "None", bytes |-> << >>, asm |-> asm ]
      [] p.st = "panic" -> [ ret |-> "panic", bytes |-> << >>, asm |-> asm ]
      [] p.st = "ok" ->
            assemble_phases(asm, p.val, extract_labels(asm.symbols, p.val, 0))

\* Assembler::assemble on an assembler [symbols, phase, program]: what it
\* returns (ret: "Some" with bytes, "None", or "panic") and the assembler
\* it leaves
assemble(asm, raw) == assemble_parsed(asm, program_parser(raw))

\* Assembler::new
new_assembler == [ symbols |-> << >>, phase |-> "First", program |-> None ]

\* Assembler::get_assembled_program: the stored Option<Program>
get_assembled_program(a) == a.program

(***************************************************************************)
(* Machine arithmetic.  An i32 is an integer of MinI32..MaxI32.  A u32 is  *)
(* kept as its two 16-bit halves [hi, lo], of value hi * 65536 + lo.       *)
(* A usize (pc) is kept as an integer n: n >= 0 is itself, n < 0 stands    *)
(* for the usize 2^64 + n that `x as usize` makes of a negative i32 x.     *)
(***************************************************************************)
add_overflows(a, b) ==
    \/ b > 0 /\ a > MaxI32 - b
    \/ b < 0 /\ a < MinI32 - b

wrapping_add(a, b) ==
    CASE b > 0 /\ a > MaxI32 - b -> ((a - MaxI32) - 1) + ((b - MaxI32) - 1)
      [] b < 0 /\ a < MinI32 - b -> ((a + MaxI32) + 1) + ((b + MaxI32) + 1)
      [] OTHER -> a + b

sub_overflows(a, b) ==
    \/ b < 0 /\ a > MaxI32 + b
    \/ b > 0 /\ a < MinI32 + b

wrapping_sub(a, b) ==
    CASE b < 0 /\ a > MaxI32 + b -> ((a - MaxI32) - 1) - ((b + MaxI32) + 1)
      [] b > 0 /\ a < MinI32 + b -> ((a + MaxI32) + 1) - ((b - MaxI32) - 1)
      [] OTHER -> a - b

\* byte i of the two's complement of x
limb(x, i) == (x \div (256 ^ i)) % 256

\* the i32 of four bytes, the lowest first
from_limbs(c0, c1, c2, c3) ==
    (IF c3 >= 128 THEN c3 - 256 ELSE c3) * 16777216 + c2 * 65536 + c1 * 256 + c0

\* a * b modulo 2^32, by long multiplication of the bytes
wrapping_mul(a, b) ==
    LET s0 == limb(a, 0) * limb(b, 0)
        s1 == limb(a, 0) * limb(b, 1) + limb(a, 1) * limb(b, 0) + s0 \div 256
        s2 == limb(a, 0) * limb(b, 2) + limb(a, 1) * limb(b, 1)
                + limb(a, 2) * limb(b, 0) + s1 \div 256
        s3 == limb(a, 0) * limb(b, 3) + limb(a, 1) * limb(b, 2)
                + limb(a, 2) * limb(b, 1) + limb(a, 3) * limb(b, 0) + s2 \div 256
    IN  from_limbs(s0 % 256, s1 % 256, s2 % 256, s3 % 256)

\* a / b of Rust (towards zero), for b # 0 and not MinI32 / -1
trunc_div(a, b) ==
    LET pos(x, y) == IF x >= 0 \/ x % y = 0 THEN x \div y ELSE (x \div y) + 1
    IN  CASE b > 0 -> pos(a, b)
          [] b = MinI32 -> IF a = MinI32 THEN 1 ELSE 0
          [] OTHER -> -pos(a, -b)

\* a % b of Rust (the sign of a), for b # 0 and not MinI32 % -1
trunc_rem(a, b) == a - trunc_div(a, b) * b

mul_overflows(a, b) ==
    /\ a # 0
    /\ b # 0
    /\ \/ a = -1 /\ b = MinI32
       \/ b = -1 /\ a = MinI32
       \/ /\ a # -1
          /\ b # -1
          /\ LET p == wrapping_mul(a, b)
             IN  trunc_div(p, a) # b \/ trunc_rem(p, a) # 0

\* x as u32, for an i32 x
as_u32(x) == [ hi |-> (x \div 65536) % 65536, lo |-> x % 65536 ]

(***************************************************************************)
(* The virtual machine (vm.rs).  A VM is the record of its fields; heap    *)
(* is kept as heap.len(): no opcode writes a heap byte, all are 0.         *)
(***************************************************************************)
NumRegisters == 32

\* VM::new
new_vm ==
    [ registers |-> [ r \in 0..(NumRegisters - 1) |-> 0 ],
      pc |-> 0,
      program |-> << >>,
      remainder |-> as_u32(0),
      equal_flag |-> FALSE,
      heap |-> 0 ]

\* A deliberately wrong variant of add_bytes: the bytes given replace the
\* program.
add_bytes_replacing(vm, bytes) == [ vm EXCEPT !.program = bytes ]

\* VM::add_bytes
add_bytes(vm, bytes) == [ vm EXCEPT !.program = vm.program \o bytes ]

\* VM::add_byte
add_byte(vm, v) == [ vm EXCEPT !.program = Append(vm.program, v) ]

\* A deliberately wrong variant of Returned: execute_instruction never
\* returns false.
ReturnedTrue(vm, ret) == [ vm |-> vm, ret |-> TRUE, panic |-> "", out |-> "" ]

\* the results of execute_instruction: it returned true or false leaving
\* vm, or it panicked (the VM is then not used again)
Returned(vm, ret) == [ vm |-> vm, ret |-> ret, panic |-> "", out |-> "" ]

Panicked(vm, why) == [ vm |-> vm, ret |-> FALSE, panic |-> why, out |-> "" ]

\* println!(..); return false
Printed(vm, text) == [ vm |-> vm, ret |-> FALSE, panic |-> "", out |-> text ]

\* i32 arithmetic under the build's overflow checks: a panic with them,
\* two's complement wrapping without
checked(vm, oc, overflows, k) ==
    IF overflows /\ oc THEN Panicked(vm, "arithmetic overflow") ELSE k

\* A deliberately wrong variant of compare: the registers compared as u32.
compare_unsigned(op, a, b) ==
    LET below == (a >= 0 /\ b < 0) \/ ((a < 0) = (b < 0) /\ a < b)
    IN  CASE op = "EQ" -> a = b      [] op = "NEQ" -> a # b
          [] op = "GT" -> ~below /\ a # b  [] op = "LT" -> below
          [] op = "GTE" -> ~below    [] op = "LTE" -> below \/ a = b

\* the comparison of EQ, NEQ, GT, LT, GTE, LTE
compare(op, a, b) ==
    CASE op = "EQ" -> a = b   [] op = "NEQ" -> a # b
      [] op = "GT" -> a > b   [] op = "LT" -> a < b
      [] op = "GTE" -> a >= b [] op = "LTE" -> a <= b

\* A deliberately wrong variant of exhausted: only a pc that is exactly the
\* length of the program.
exhausted_at_end(vm) == vm.pc = Len(vm.program)

\* self.pc >= self.program.len(); a pc below 0 stands for one of 2^64 + pc
exhausted(vm) == vm.pc < 0 \/ vm.pc >= Len(vm.program)

\* A deliberately wrong variant of after_register: the start of the
\* following slot.
after_slot(a) == a + 4

\* the pc after decode_opcode and one next_8_bits, for an opcode at a
after_register(a) == a + 2

\* VM::execute_instruction; oc: the build has overflow checks (debug)
execute_instruction(vm, oc) ==
    IF exhausted(vm) THEN Returned(vm, FALSE)
    ELSE IF vm.pc % 4 # 0
    THEN Panicked(vm, "assertion failed: self.pc % 4 == 0")
    ELSE IF vm.pc < 0 \/ vm.pc >= Len(vm.program)
    THEN Panicked(vm, "index out of bounds")
    ELSE
    LET a      == vm.pc
        len    == Len(vm.program)
        opcode == OpcodeFromByte(vm.program[a + 1])
        \* next_8_bits at pc = a + k
        b(k)   == vm.program[a + k + 1]
        has(k) == a + k < len
        reg(r) == vm.registers[r]
        isreg(r) == r < NumRegisters
        index  == Panicked(vm, "index out of bounds")
        set(r, v, pc1) ==
            Returned([ vm EXCEPT !.registers[r] = v, !.pc = pc1 ], TRUE)
        jump(pc1) == Returned([ vm EXCEPT !.pc = pc1 ], TRUE)
    IN
    CASE opcode = "HLT" -> Printed([ vm EXCEPT !.pc = a + 1 ], "HLT encountered")
      [] opcode = "LOAD" ->
            IF ~has(3) \/ ~isreg(b(1)) THEN index
            ELSE set(b(1), b(2) * 256 + b(3), a + 4)
      [] opcode \in { "ADD", "SUB", "MUL" } ->
            IF ~has(3) \/ ~isreg(b(2)) \/ ~isreg(b(3)) THEN index
            ELSE
            LET x == reg(b(2))
                y == reg(b(3))
                ovf == CASE opcode = "ADD" -> add_overflows(x, y)
                         [] opcode = "SUB" -> sub_overflows(x, y)
                         [] opcode = "MUL" -> mul_overflows(x, y)
                val == CASE opcode = "ADD" -> wrapping_add(x, y)
                         [] opcode = "SUB" -> wrapping_sub(x, y)
                         [] opcode = "MUL" -> wrapping_mul(x, y)
            IN  checked(vm, oc, ovf,
                        IF ~isreg(b(1)) THEN index ELSE set(b(1), val, a + 4))
      [] opcode = "DIV" ->
            IF ~has(3) \/ ~isreg(b(2)) \/ ~isreg(b(3)) THEN index
            ELSE
            LET x == reg(b(2))
                y == reg(b(3))
            IN  IF y = 0 THEN Panicked(vm, "attempt to divide by zero")
                ELSE IF x = MinI32 /\ y = -1
                THEN Panicked(vm, "attempt to divide with overflow")
                ELSE IF ~isreg(b(1)) THEN index
                ELSE
                \* the remainder is computed after registers[r0] is written
                LET regs1 == [ vm.registers EXCEPT ![b(1)] = trunc_div(x, y) ]
                    x1    == regs1[b(2)]
                    y1    == regs1[b(3)]
                IN  IF y1 = 0
                    THEN Panicked(vm, "attempt to calculate the remainder with a divisor of zero")
                    ELSE IF x1 = MinI32 /\ y1 = -1
                    THEN Panicked(vm, "attempt to calculate the remainder with overflow")
                    ELSE Returned([ vm EXCEPT !.registers = regs1,
                                              !.remainder = as_u32(trunc_rem(x1, y1)),
                                              !.pc = a + 4 ], TRUE)
      [] opcode = "JMP" ->
            IF ~has(1) \/ ~isreg(b(1)) THEN index ELSE jump(reg(b(1)))
      [] opcode = "JMPF" ->
            IF ~has(1) \/ ~isreg(b(1)) THEN index
            ELSE LET offset == reg(b(1))
                 \* pc + (2^64 + offset) passes 2^64 when pc + offset >= 0
                 IN  checked(vm, oc, offset < 0 /\ after_register(a) + offset >= 0,
                             jump(after_register(a) + offset))
      [] opcode = "JMPB" ->
            IF ~has(1) \/ ~isreg(b(1)) THEN index
            ELSE LET offset == reg(b(1))
                 \* pc - offset is below 0 when offset, as a usize, exceeds pc
                 IN  checked(vm, oc, offset < 0 \/ offset > after_register(a),
                             jump(after_register(a) - offset))
      [] opcode \in { "EQ", "NEQ", "GT", "LT", "GTE", "LTE" } ->
            IF ~has(2) \/ ~isreg(b(1)) \/ ~isreg(b(2)) \/ ~has(3) THEN index
            ELSE Returned([ vm EXCEPT
                              !.equal_flag = compare(opcode, reg(b(1)), reg(b(2))),
                              !.pc = a + 4 ], TRUE)
      [] opcode = "JEQ" ->
            IF ~has(1) \/ ~isreg(b(1)) THEN index
            ELSE IF vm.equal_flag THEN jump(reg(b(1))) ELSE jump(after_register(a))
      [] opcode = "JNEQ" ->
            IF ~has(1) \/ ~isreg(b(1)) THEN index
            ELSE IF ~vm.equal_flag THEN jump(reg(b(1))) ELSE jump(after_register(a))
      [] opcode = "ALOC" ->
            IF ~has(1) \/ ~isreg(b(1)) THEN index
            ELSE LET bytes   == reg(b(1))
                     new_end == wrapping_add(vm.heap, bytes)
                 IN  checked(vm, oc, add_overflows(vm.heap, bytes),
                             IF new_end < 0
                             THEN Panicked(vm, "capacity overflow")
                             ELSE Returned([ vm EXCEPT !.heap = new_end,
                                                       !.pc = a + 4 ], TRUE))
      [] opcode = "INC" ->
            IF ~has(1) \/ ~isreg(b(1)) THEN index
            ELSE checked(vm, oc, add_overflows(reg(b(1)), 1),
                         set(b(1), wrapping_add(reg(b(1)), 1), a + 4))
      [] opcode = "DEC" ->
            IF ~has(1) \/ ~isreg(b(1)) THEN index
            ELSE checked(vm, oc, sub_overflows(reg(b(1)), 1),
                         set(b(1), wrapping_sub(reg(b(1)), 1), a + 4))
      [] OTHER -> Printed([ vm EXCEPT !.pc = a + 1 ],
                          "Unrecognized opcode found! Terminating!")

(***************************************************************************)
(* Source texts                                                            *)
(***************************************************************************)
NL == << "\n" >>

\* load $0 #100 / test: inc $2 / neq $0 $2 / jeqd @test / hlt
\* (tests::test_assemble_program)
SrcTest ==
    << "l","o","a","d"," ","$","0"," ","#","1","0","0" >> \o NL
    \o << "t","e","s","t",":"," ","i","n","c"," ","$","2" >> \o NL
    \o << "n","e","q"," ","$","0"," ","$","2" >> \o NL
    \o << "j","e","q","d"," ","@","t","e","s","t" >> \o NL
    \o << "h","l","t" >>

\* jmp @b / b: hlt   (a forward reference)
SrcFwd == << "j","m","p"," ","@","b" >> \o NL \o << "b",":"," ","h","l","t" >>

\* b: inc $0 / jmp @b   (a backward reference)
SrcBack ==
    << "b",":"," ","i","n","c"," ","$","0" >> \o NL \o << "j","m","p"," ","@","b" >>

\* b: inc $0 / b: jmp @b   (b declared twice)
SrcDup ==
    << "b",":"," ","i","n","c"," ","$","0" >> \o NL
    \o << "b",":"," ","j","m","p"," ","@","b" >>

\* jmp @b   (b declared nowhere)
SrcUndeclared == << "j","m","p"," ","@","b" >>

\* inc $0 / !!   (a well-formed line, then a malformed one)
SrcMalformedTail == << "i","n","c"," ","$","0" >> \o NL \o << "!","!" >>

\* !!
SrcMalformed == << "!","!" >>

\* load $0 #1 #2   (an opcode byte and five operand bytes)
SrcTooLong == << "l","o","a","d"," ","$","0"," ","#","1"," ","#","2" >>

\* .data / hlt
SrcDirective == << ".","d","a","t","a" >> \o NL \o << "h","l","t" >>

\* jeq $0 / hlt
SrcJeq == << "j","e","q"," ","$","0" >> \o NL \o << "h","l","t" >>

\* .data $19 $0
SrcDirectiveOperands ==
    << ".","d","a","t","a"," ","$","1","9"," ","$","0" >>

Sources ==
    { SrcTest, SrcFwd, SrcBack, SrcDup, SrcUndeclared, SrcMalformedTail,
      SrcMalformed, SrcTooLong, SrcDirective, SrcJeq, SrcDirectiveOperands }

\* the decimal digits of n >= 0
RECURSIVE to_decimal(_)
to_decimal(n) ==
    IF n < 10 THEN << DigitSeq[n + 1] >>
    ELSE Append(to_decimal(n \div 10), DigitSeq[(n % 10) + 1])

\* load $r #v
load_text(r, v) ==
    << "l","o","a","d"," ","$" >> \o to_decimal(r) \o << " ","#" >> \o to_decimal(v)

LoadValues == { 0, 1, 255, 256, 257, 500, 12345, 32767, 32768, 65280, 65534, 65535 }

\* values of an i32 literal up to i32::MAX, most of them beyond 16 bits
WideLoadValues == { 0, 255, 65535, 65536, 65537, 131071, 1000000, MaxI32 }

(***************************************************************************)
(* Bounds of the scenarios                                                 *)
(***************************************************************************)
\* assemble calls on the one Assembler
MaxAssembles == 2

\* instructions executed by one run() call
MaxExecuted == 5

\* add_bytes calls on the one VM
MaxLoads == 2

\* conversions made of one byte or Opcode
MaxConversions == 2

\* run and run_once calls on the one VM
MaxCalls == 3

(***************************************************************************)
(* State.  asm is the Assembler and registers, pc, program, remainder,     *)
(* equal_flag, heap the fields of the VM.                                  *)
(*   raws       the source texts given to assemble, in call order          *)
(*   assembled  what the last assemble call returned                       *)
(*   loads      the add_bytes calls made: from which source, and whether   *)
(*              the bytes were the body (the header cut off, as            *)
(*              test_assemble_program does) or all that assemble returned  *)
(*              (as REPL::run does)                                        *)
(*   ncalls, last_call   the run / run_once calls made on the VM           *)
(*   running    run() is inside its loop                                   *)
(*   vm_panic   the panic that ended a call on the VM, or ""               *)
(*   overflow_checks   the build: with (debug) or without (release)        *)
(*   before     the VM as the last execute_instruction found it, whether   *)
(*              the execute_instruction before it executed HLT, and        *)
(*              whether the call returned after it, and the instructions   *)
(*              the call has executed up to it                             *)
(*   printed    the line the last execute_instruction printed, or ""       *)
(*   codec      a byte and an Opcode, as they were at first and as the     *)
(*              conversions made of them since (steps) have left them      *)
(***************************************************************************)
VARIABLES asm, raws, assembled,
          registers, pc, program, remainder, equal_flag, heap,
          loads, ncalls, last_call, running, vm_panic, overflow_checks,
          before, printed, codec

asm_vars == << asm, raws, assembled >>

vm_vars == << registers, pc, program, remainder, equal_flag, heap,
              loads, ncalls, last_call, running, vm_panic, before, printed >>

vars == << asm, raws, assembled,
           registers, pc, program, remainder, equal_flag, heap,
           loads, ncalls, last_call, running, vm_panic, overflow_checks,
           before, printed, codec >>

\* what no call on the Assembler or on the VM changes
fixed == << overflow_checks, codec >>

VM == [ registers |-> registers, pc |-> pc, program |-> program,
        remainder |-> remainder, equal_flag |-> equal_flag, heap |-> heap ]

SetVM(vm) ==
    /\ registers' = vm.registers
    /\ pc' = vm.pc
    /\ program' = vm.program
    /\ remainder' = vm.remainder
    /\ equal_flag' = vm.equal_flag
    /\ heap' = vm.heap

\* Assembler::new() and VM::new()
NewMachines ==
    /\ asm = new_assembler
    /\ raws = << >>
    /\ assembled = [ ret |-> "NotCalled", bytes |-> << >> ]
    /\ registers = new_vm.registers
    /\ pc = new_vm.pc
    /\ program = new_vm.program
    /\ remainder = new_vm.remainder
    /\ equal_flag = new_vm.equal_flag
    /\ heap = new_vm.heap
    /\ loads = << >>
    /\ ncalls = 0
    /\ last_call = "none"
    /\ running = FALSE
    /\ vm_panic = ""
    /\ overflow_checks \in BOOLEAN
    /\ before = [ ran |-> FALSE, vm |-> new_vm, after_hlt |-> FALSE,
                 returned |-> FALSE, executed |-> 0 ]
    /\ printed = ""

Init == NewMachines /\ codec = Converting(0, "IGL")

\* asm.assemble(src); a panic ends the use of the Assembler
Assemble(src) ==
    /\ assembled.ret # "panic"
    /\ loads = << >>
    /\ LET r == assemble(asm, src)
       IN  /\ asm' = r.asm
           /\ assembled' = [ ret |-> r.ret, bytes |-> r.bytes ]
    /\ raws' = Append(raws, src)
    /\ UNCHANGED << vm_vars, fixed >>

\* the instruction body of what assemble returned: program[64..]
body_of(bytes) == Drop(bytes, PIE_HEADER_LENGTH)

\* vm.add_bytes(...) of the last assembled program
AddBytes ==
    /\ assembled.ret = "Some"
    /\ ~running
    /\ vm_panic = ""
    /\ Len(loads) < MaxLoads
    /\ \E kind \in { "body", "assembled" } :
          /\ SetVM(add_bytes(VM, IF kind = "body"
                                 THEN body_of(assembled.bytes)
                                 ELSE assembled.bytes))
          /\ loads' = Append(loads, [ kind |-> kind, raw |-> raws[Len(raws)] ])
    /\ UNCHANGED << asm_vars, ncalls, last_call, running, vm_panic, fixed,
                    before, printed >>

\* one execute_instruction, inside run (looping) or run_once
Execute(looping) ==
    LET r == execute_instruction(VM, overflow_checks)
    IN  /\ SetVM(r.vm)
        /\ vm_panic' = r.panic
        /\ running' = (looping /\ r.ret /\ r.panic = "")
        /\ before' = [ ran |-> TRUE, vm |-> VM,
                        after_hlt |-> (printed = "HLT encountered"),
                        returned |-> ~(looping /\ r.ret /\ r.panic = ""),
                        executed |->
                            (IF looping /\ before.ran /\ ~before.returned
                             THEN before.executed ELSE 0)
                            + (IF exhausted(VM) THEN 0 ELSE 1) ]
        /\ printed' = r.out

\* vm.run_once()
RunOnce ==
    /\ ~running
    /\ vm_panic = ""
    /\ loads # << >>
    /\ ncalls < MaxCalls
    /\ Execute(FALSE)
    /\ ncalls' = ncalls + 1
    /\ last_call' = "run_once"
    /\ UNCHANGED << asm_vars, loads, fixed >>

\* vm.run(): the call, up to its loop
RunStart ==
    /\ ~running
    /\ vm_panic = ""
    /\ loads # << >>
    /\ ncalls < MaxCalls
    /\ running' = TRUE
    /\ ncalls' = ncalls + 1
    /\ last_call' = "run"
    /\ UNCHANGED << asm_vars, registers, pc, program, remainder, equal_flag,
                    heap, loads, vm_panic, fixed, before, printed >>

\* vm.run(): one turn of its loop; it returns when execute_instruction
\* returns false
RunStep ==
    /\ running
    /\ (before.ran /\ ~before.returned) => before.executed < MaxExecuted
    /\ Execute(TRUE)
    /\ UNCHANGED << asm_vars, loads, ncalls, last_call, fixed >>

AssembleSource == \E src \in Sources : Len(raws) < MaxAssembles /\ Assemble(src)

Next == AssembleSource \/ AddBytes \/ RunOnce \/ RunStart \/ RunStep

Spec == Init /\ [][Next]_vars

\* the scenario of one `load $r #v` line
AssembleLoad ==
    \E r \in 0..(NumRegisters - 1), v \in LoadValues :
        raws = << >> /\ Assemble(load_text(r, v))

NextLoad == AssembleLoad \/ AddBytes \/ RunOnce \/ RunStart \/ RunStep

SpecLoad == Init /\ [][NextLoad]_vars

\* the scenario of one `load $r #v` line with a wide v, or of one program
\* with a label usage
AssembleWide ==
    \E src \in { load_text(r, v) : r \in 0..(NumRegisters - 1), v \in WideLoadValues }
                  \cup { SrcFwd, SrcBack } :
        raws = << >> /\ Assemble(src)

NextWide == AssembleWide \/ AddBytes \/ RunOnce \/ RunStart \/ RunStep

SpecWide == Init /\ [][NextWide]_vars

\* the bytes given to add_byte: HLT, INC and the code of no opcode
AppendedBytes == { 0, 19, 200 }

\* vm.add_byte(v)
AddByte ==
    /\ ~running
    /\ vm_panic = ""
    /\ Len(loads) < MaxLoads
    /\ \E v \in AppendedBytes : SetVM(add_byte(VM, v))
    /\ loads' = Append(loads, [ kind |-> "byte", raw |-> << >> ])
    /\ UNCHANGED << asm_vars, ncalls, last_call, running, vm_panic, fixed,
                    before, printed >>

\* the scenario of a VM that is given bytes one at a time and the bytes of
\* one assembled program, between runs
AssembleOne ==
    \E src \in { SrcTest, SrcBack, SrcDirective } : raws = << >> /\ Assemble(src)

NextAppend == AssembleOne \/ AddBytes \/ AddByte \/ RunOnce \/ RunStart \/ RunStep

SpecAppend == Init /\ [][NextAppend]_vars

(***************************************************************************)
(* The VM on its own, as the tests of vm.rs use it: registers and program  *)
(* are set directly on a new VM, then run and run_once are called.         *)
(***************************************************************************)
\* the registers the programs name, and the values they start with
RegIndices == { 0, 1, 31 }

\* register 0, which the jumps of the programs name, starts with a value
\* that keeps pc within the integers of the model; register 1 starts with
\* the extreme values too
RegValues == { -7, -1, 0, 2, 1024 }

WideRegValues == RegValues \cup { MinI32, MaxI32 }

LastRegValues == { -7, 2 }

\* bytes that are the code of no opcode
IllegalBytes == { 21, 45, 200, 255 }

\* one 4-byte slot
Slot(op, a, b, c) == << op, a, b, c >>

\* programs of one slot: every opcode byte on registers 0 and 1, ALOC, INC
\* and DEC on register 1 too, DIV on every choice of registers
OneSlotPrograms ==
    { Slot(op, 0, 1, 0) : op \in (0..20) \cup IllegalBytes }
      \cup { Slot(op, 1, 0, 0) : op \in { 18, 19, 20 } }
      \cup { Slot(5, d, s1, s2) : d \in RegIndices, s1 \in RegIndices, s2 \in RegIndices }

\* programs of two and three slots
LongerPrograms ==
    { Slot(18, 0, 0, 0) \o Slot(18, 1, 0, 0),
      Slot(18, 0, 0, 0) \o Slot(18, 0, 0, 0),
      Slot(20, 1, 0, 0) \o Slot(18, 0, 0, 0) \o Slot(18, 1, 0, 0),
      Slot(19, 0, 0, 0) \o Slot(20, 1, 0, 0),
      Slot(1, 0, 1, 244) \o Slot(2, 31, 0, 1),
      Slot(4, 0, 0, 1) \o Slot(3, 1, 31, 0),
      Slot(9, 0, 1, 0) \o Slot(10, 0, 1, 0),
      Slot(11, 0, 1, 0) \o Slot(12, 0, 1, 0) \o Slot(13, 31, 1, 0),
      Slot(0, 0, 0, 0) \o Slot(19, 0, 0, 0),
      Slot(19, 0, 0, 0) \o Slot(0, 0, 0, 0),
      Slot(19, 0, 0, 0) \o Slot(200, 0, 0, 0),
      Slot(7, 0, 0, 0) \o Slot(19, 1, 0, 0),
      Slot(19, 1, 0, 0) \o Slot(8, 0, 0, 0),
      Slot(17, 0, 0, 0) \o Slot(19, 0, 0, 0),
      Slot(15, 0, 0, 0) \o Slot(19, 0, 0, 0),
      Slot(9, 0, 0, 0) \o Slot(16, 0, 0, 0),
      Slot(10, 0, 0, 0) \o Slot(16, 0, 0, 0) \o Slot(19, 1, 0, 0) }

Programs == OneSlotPrograms \cup LongerPrograms

\* a new VM whose registers 0, 1 and 31 and whose program have been set
InitRegisters(V0, V1, V31) ==
    /\ asm = new_assembler
    /\ raws = << >>
    /\ assembled = [ ret |-> "NotCalled", bytes |-> << >> ]
    /\ \E v0 \in V0, v1 \in V1, v31 \in V31 :
          registers = [ new_vm.registers EXCEPT ![0] = v0, ![1] = v1, ![31] = v31 ]
    /\ pc = new_vm.pc
    /\ program \in Programs
    /\ remainder = new_vm.remainder
    /\ equal_flag = new_vm.equal_flag
    /\ heap = new_vm.heap
    /\ loads = << [ kind |-> "direct", raw |-> << >> ] >>
    /\ ncalls = 0
    /\ last_call = "none"
    /\ running = FALSE
    /\ vm_panic = ""
    /\ overflow_checks \in BOOLEAN
    /\ before = [ ran |-> FALSE, vm |-> new_vm, after_hlt |-> FALSE,
                 returned |-> FALSE, executed |-> 0 ]
    /\ printed = ""
    /\ codec = Converting(0, "IGL")

InitVM == InitRegisters(RegValues, WideRegValues, LastRegValues)

NextVM == RunOnce \/ RunStart \/ RunStep

SpecVM == InitVM /\ [][NextVM]_vars

\* the same VM, stepped with run_once only
NextOnce == RunOnce

SpecOnce == InitVM /\ [][NextOnce]_vars

\* fewer values of the registers, for the runs that are followed to their end
InitRun == InitRegisters({ -7, 2 }, { -1, 2, MaxI32 }, { 2 })

\* the loop of run() goes on for as long as execute_instruction returns true
SpecRun == InitRun /\ [][NextVM]_vars /\ WF_vars(RunStep)

(***************************************************************************)
(* The conversions between u8 and Opcode on their own: Opcode::from(byte)  *)
(* and opcode.into(), applied to every byte and to every variant.          *)
(***************************************************************************)
Bytes == 0..MaxU8

InitCodec ==
    /\ NewMachines
    /\ ~overflow_checks
    /\ codec \in { Converting(b, "IGL") : b \in Bytes }
                   \cup { Converting(0, o) : o \in Opcodes }

\* let opcode = Opcode::from(byte)
FromByte ==
    /\ Len(codec.steps) < MaxConversions
    /\ codec' = [ codec EXCEPT !.opcode = OpcodeFromByte(codec.byte),
                               !.steps = Append(@, "from") ]
    /\ UNCHANGED << asm_vars, vm_vars, overflow_checks >>

\* let byte: u8 = opcode.into()
IntoByte ==
    /\ Len(codec.steps) < MaxConversions
    /\ codec' = [ codec EXCEPT !.byte = OpcodeToByte(codec.opcode),
                               !.steps = Append(@, "into") ]
    /\ UNCHANGED << asm_vars, vm_vars, overflow_checks >>

NextCodec == FromByte \/ IntoByte

SpecCodec == InitCodec /\ [][NextCodec]_vars

(***************************************************************************)
(* Vocabulary of the properties                                            *)
(***************************************************************************)
LastRaw == raws[Len(raws)]

\* the records the parser makes of the last source (when it parses)
LastProgram == program_parser(LastRaw).val

\* an assemble call has just returned.  The fields of the Assembler and what
\* it returned change in assemble only, so what holds of them at the return
\* of the call holds until the next call.
JustAssembled == raws # << >> /\ loads = << >>

LastParses == JustAssembled /\ program_parser(LastRaw).st = "ok"

LastBody == body_of(assembled.bytes)

Operands(ins) == << ins.operand1, ins.operand2, ins.operand3 >>

\* the bytes an operand takes in its slot
Width(token) ==
    CASE token.type = "Register" -> 1
      [] token.type \in { "IntegerOperand", "LabelUsage" } -> 2
      [] OTHER -> 0

\* where operand j of a record starts in the record's slot
OperandStart(ins, j) ==
    (IF ins.opcode.type = "Op" THEN 1 ELSE 0)
    + (IF j > 1 THEN Width(ins.operand1) ELSE 0)
    + (IF j > 2 THEN Width(ins.operand2) ELSE 0)

\* the 16-bit value the body holds for operand j of record k
EncodedValue(body, prog, k, j) ==
    LET at == 4 * (k - 1) + OperandStart(prog[k], j)
    IN  body[at + 1] * 256 + body[at + 2]

\* the label usages of a program: << record, operand >>
Usages(prog) ==
    { u \in (1..Len(prog)) \X (1..3) : Operands(prog[u[1]])[u[2]].type = "LabelUsage" }

UsedName(prog, u) == Operands(prog[u[1]])[u[2]].name

\* the records of a program that declare name
Declarers(prog, name) ==
    { k \in 1..Len(prog) : prog[k].label = LabelDeclaration(name) }

Min(S) == CHOOSE x \in S : \A y \in S : x <= y

Max(S) == CHOOSE x \in S : \A y \in S : x >= y

\* the assemble calls made so far whose program declares name
DeclaringCalls(name) ==
    { c \in 1..Len(raws) :
        /\ program_parser(raws[c]).st = "ok"
        /\ Declarers(program_parser(raws[c]).val, name) # {} }

\* the offset of the first record that declares name, over the programs
\* given to the Assembler since it was created
FirstDeclaredOffset(name) ==
    4 * (Min(Declarers(program_parser(raws[Min(DeclaringCalls(name))]).val, name)) - 1)

\* the lines of a text
RECURSIVE Lines(_)
Lines(text) ==
    IF "\n" \notin Range(text) THEN { text }
    ELSE LET n == Min({ k \in 1..Len(text) : text[k] = "\n" })
         IN  { Take(text, n - 1) } \cup Lines(Drop(text, n))

\* a line of one of the accepted forms: one record, and nothing else
LineParsed(r) == r.st = "ok" /\ sp(r.rest) = << >>

LineOk(line) == LineParsed(instruction(line))

AssertPcMsg == "assertion failed: self.pc % 4 == 0"

OnlyBodiesLoaded == \A k \in 1..Len(loads) : loads[k].kind = "body"

\* exactly one call, `call`, has been made and has ended, on a VM that was
\* fresh when the `kind` bytes of the one program assembled were loaded
FirstCallDone(kind, call) ==
    /\ Len(raws) = 1
    /\ loads = << [ kind |-> kind, raw |-> raws[1] ] >>
    /\ ncalls = 1
    /\ last_call = call
    /\ ~running

(***************************************************************************)
(* C1: on a VM that holds only assembled bodies (whole 4-byte slots), the  *)
(* assertion pc % 4 == 0 of decode_opcode never fails, whatever run and    *)
(* run_once calls are made.                                                *)
(***************************************************************************)
C1_AssertNeverFails == OnlyBodiesLoaded => vm_panic # AssertPcMsg

(***************************************************************************)
(* C2: the five-line test program assembles to a table with test -> 4 and  *)
(* a 20-byte body; run() on that body in a fresh VM ends with pc = 17 and  *)
(* registers[0] = registers[2].                                            *)
(***************************************************************************)
C2_TestProgram ==
    /\ raws = << SrcTest >> =>
          /\ assembled.ret = "Some"
          /\ symbol_value(asm.symbols, << "t","e","s","t" >>) = 4
          /\ Len(LastBody) = 20
    /\ (raws = << SrcTest >> /\ FirstCallDone("body", "run")) =>
          /\ vm_panic = ""
          /\ pc = 17
          /\ registers[0] = registers[2]

(***************************************************************************)
(* C3: load $r #v, assembled, its body loaded into a fresh VM and run,     *)
(* leaves registers[r] = v and every other register 0.                     *)
(***************************************************************************)
C3_LoadImmediate ==
    FirstCallDone("body", "run") =>
        \A r \in 0..(NumRegisters - 1), v \in LoadValues :
            raws = << load_text(r, v) >> =>
                /\ vm_panic = ""
                /\ registers = [ i \in 0..(NumRegisters - 1) |-> IF i = r THEN v ELSE 0 ]

C3_Witness ==
    /\ FirstCallDone("body", "run")
    /\ raws = << load_text(31, 65535) >>
    /\ registers[31] = 65535
    /\ registers[0] = 0

(***************************************************************************)
(* C4: every record the parser makes encodes to exactly 4 bytes (here: of  *)
(* the records whose label usages are in the symbol table), and the body   *)
(* of an assembled program of n records is 4n bytes long.                  *)
(***************************************************************************)
Resolvable(ins) ==
    \A j \in 1..3 :
        Operands(ins)[j].type = "LabelUsage" =>
            symbol_value(asm.symbols, Operands(ins)[j].name) # -1

FourBytes(b) == b.st = "ok" /\ Len(b.bytes) = 4

C4_FourBytesPerRecord ==
    LastParses =>
        /\ \A k \in 1..Len(LastProgram) :
              Resolvable(LastProgram[k]) =>
                  FourBytes(to_bytes(LastProgram[k], asm.symbols))
        /\ assembled.ret = "Some" => Len(LastBody) = 4 * Len(LastProgram)

(***************************************************************************)
(* C5: in an assemble call, a label usage whose name exactly one record of *)
(* the program declares is encoded as 4 * (index of that record), whether  *)
(* the declaration precedes the usage or follows it.                       *)
(***************************************************************************)
C5_LabelOffset ==
    (LastParses /\ assembled.ret = "Some") =>
        \A u \in Usages(LastProgram) :
            Cardinality(Declarers(LastProgram, UsedName(LastProgram, u))) = 1 =>
                EncodedValue(LastBody, LastProgram, u[1], u[2])
                    = 4 * (Min(Declarers(LastProgram, UsedName(LastProgram, u))) - 1)

(***************************************************************************)
(* C6 as claimed: a name declared by more than one record of the program   *)
(* resolves to the offset of the last record that declares it.             *)
(***************************************************************************)
C6_LastWriterWins ==
    (LastParses /\ assembled.ret = "Some") =>
        \A u \in Usages(LastProgram) :
            Cardinality(Declarers(LastProgram, UsedName(LastProgram, u))) > 1 =>
                EncodedValue(LastBody, LastProgram, u[1], u[2])
                    = 4 * (Max(Declarers(LastProgram, UsedName(LastProgram, u))) - 1)

(***************************************************************************)
(* C6 as amended: a name declared by more than one record of the program   *)
(* resolves to the offset of the first record that declares it, the first  *)
(* among the records of every program given to that Assembler since it was *)
(* created (the first writer wins).                                        *)
(***************************************************************************)
C6_FirstWriterWins ==
    (LastParses /\ assembled.ret = "Some") =>
        \A u \in Usages(LastProgram) :
            Cardinality(Declarers(LastProgram, UsedName(LastProgram, u))) > 1 =>
                EncodedValue(LastBody, LastProgram, u[1], u[2])
                    = FirstDeclaredOffset(UsedName(LastProgram, u))

C6_Witness ==
    /\ raws = << SrcDup >>
    /\ assembled.ret = "Some"
    /\ EncodedValue(LastBody, LastProgram, 2, 1) = 0

(***************************************************************************)
(* C7: what an assemble call returns is what a newly created Assembler     *)
(* returns for the same text, whatever was assembled before.               *)
(***************************************************************************)
SameReturn(a, b) == a.ret = b.ret /\ a.bytes = b.bytes

C7_FreshSymbolTable ==
    JustAssembled => SameReturn(assembled, assemble(new_assembler, LastRaw))

(***************************************************************************)
(* C8: a source with a line of none of the accepted forms assembles to     *)
(* None, and no bytes.                                                     *)
(***************************************************************************)
C8_AllOrNothing ==
    (JustAssembled /\ \E line \in Lines(LastRaw) : ~LineOk(line)) =>
        /\ assembled.ret = "None"
        /\ assembled.bytes = << >>

(***************************************************************************)
(* C9 as claimed: a source that parses and uses a label that no record of  *)
(* the program declares assembles to None, and no bytes.                   *)
(***************************************************************************)
C9_UnresolvedIsNone ==
    (LastParses /\ \E u \in Usages(LastProgram) :
                       Declarers(LastProgram, UsedName(LastProgram, u)) = {}) =>
        /\ assembled.ret = "None"
        /\ assembled.bytes = << >>

(***************************************************************************)
(* C9 as amended: a source that parses and uses a label that no record     *)
(* declares, of this program or of a program given earlier to the same     *)
(* Assembler, makes assemble panic: it does not return None, and no bytes  *)
(* are returned.                                                           *)
(***************************************************************************)
C9_UnresolvedPanics ==
    (LastParses /\ \E u \in Usages(LastProgram) :
                       DeclaringCalls(UsedName(LastProgram, u)) = {}) =>
        /\ assembled.ret = "panic"
        /\ assembled.bytes = << >>

C9_Witness ==
    /\ raws = << SrcDirective, SrcUndeclared >>
    /\ assembled.ret = "panic"
    /\ assembled.bytes = << >>

(***************************************************************************)
(* C10: what assemble returns, loaded as returned (header and body) into a *)
(* fresh VM, is ready to run: the first run_once executes the first record *)
(* of the source, as it does on the body alone.                            *)
(***************************************************************************)
SameEffect(vm) ==
    /\ registers = vm.registers
    /\ equal_flag = vm.equal_flag
    /\ remainder = vm.remainder
    /\ heap = vm.heap

C10_ReadyAsReturned ==
    FirstCallDone("assembled", "run_once") =>
        /\ vm_panic = ""
        /\ SameEffect(execute_instruction(add_bytes(new_vm, LastBody),
                                          overflow_checks).vm)

(***************************************************************************)
(* Vocabulary of the properties of the VM.  before is the VM as the last   *)
(* execute_instruction found it; the fields of the VM change in            *)
(* execute_instruction only (the program buffer in add_bytes only), so the *)
(* state is the VM as that call left it.                                   *)
(***************************************************************************)
\* the last execute_instruction decoded an opcode byte, at offset At
At == before.vm.pc

Decoded ==
    /\ before.ran
    /\ At >= 0
    /\ At < Len(before.vm.program)
    /\ At % 4 = 0

\* byte k of the slot it decoded, and the register that byte names
SlotByte(k) == before.vm.program[At + k + 1]

RegBefore(k) == before.vm.registers[SlotByte(k)]

\* it decoded the byte of opcode op, with the whole slot in the buffer
Executed(op) ==
    /\ Decoded
    /\ At + 4 <= Len(before.vm.program)
    /\ SlotByte(0) = OpcodeToByte(op)

\* it returned (no panic) and left these fields as it found them
Kept(fields) ==
    /\ "registers" \in fields => registers = before.vm.registers
    /\ "pc" \in fields => pc = before.vm.pc
    /\ "equal_flag" \in fields => equal_flag = before.vm.equal_flag
    /\ "remainder" \in fields => remainder = before.vm.remainder
    /\ "heap" \in fields => heap = before.vm.heap
    /\ "program" \in fields => program = before.vm.program

(***************************************************************************)
(* C11: the heap only grows: no execute_instruction leaves the heap        *)
(* shorter than it found it, and only one that executes ALOC changes its   *)
(* length.                                                                 *)
(***************************************************************************)
C11_HeapOnlyGrows ==
    before.ran =>
        /\ heap >= before.vm.heap
        /\ heap # before.vm.heap => Executed("ALOC")

(***************************************************************************)
(* C12: ALOC with a register value n >= 0 leaves the heap n longer and pc  *)
(* 4 further.                                                              *)
(***************************************************************************)
C12_AlocGrowsByN ==
    (Executed("ALOC") /\ RegBefore(1) >= 0) =>
        /\ vm_panic = ""
        /\ heap - RegBefore(1) = before.vm.heap
        /\ pc = At + 4

(***************************************************************************)
(* C13: DIV with a non-zero divisor (and a quotient that fits an i32)      *)
(* leaves registers[dest] the quotient of src1 by src2 and the remainder   *)
(* register src1 mod src2, of the values the source registers held before  *)
(* the instruction, whichever registers dest, src1 and src2 are.           *)
(***************************************************************************)
\* q and r are the quotient and the remainder of x by y # 0
QuotRem(x, y, q, r) ==
    /\ x - r = q * y
    /\ IF y > 0 THEN -y < r /\ r < y ELSE y < r /\ r <= -(y + 1)
    /\ r = 0 \/ (r < 0) = (x < 0)

\* the i32 whose cast the u32 u is
Signed(u) == (IF u.hi >= 32768 THEN u.hi - 65536 ELSE u.hi) * 65536 + u.lo

C13_DivQuotientRemainder ==
    (/\ Executed("DIV")
     /\ RegBefore(3) # 0
     /\ ~(RegBefore(2) = MinI32 /\ RegBefore(3) = -1)) =>
        /\ vm_panic = ""
        /\ QuotRem(RegBefore(2), RegBefore(3),
                   registers[SlotByte(1)], Signed(remainder))

(***************************************************************************)
(* C14: the byte of every opcode that the assembler has a mnemonic for is  *)
(* dispatched to an arm of the VM: decoding it never ends the run as an    *)
(* unrecognized opcode.                                                    *)
(***************************************************************************)
UnrecognizedMsg == "Unrecognized opcode found! Terminating!"

MnemonicBytes == { OpcodeToByte(Mnemonics[i][2]) : i \in 1..Len(Mnemonics) }

C14_SameInstructionSet ==
    (Decoded /\ SlotByte(0) \in MnemonicBytes) => printed # UnrecognizedMsg

(***************************************************************************)
(* C15: JMPF leaves pc at p + v and JMPB at p - v, for v the value of the  *)
(* register (negative too, the result not negative) and p the start of the *)
(* slot after the jump.                                                    *)
(***************************************************************************)
C15_RelativeJumps ==
    /\ (Executed("JMPF") /\ (At + 4) + RegBefore(1) >= 0) =>
          /\ vm_panic = ""
          /\ pc = (At + 4) + RegBefore(1)
    /\ (Executed("JMPB") /\ (At + 4) - RegBefore(1) >= 0) =>
          /\ vm_panic = ""
          /\ pc = (At + 4) - RegBefore(1)

(***************************************************************************)
(* C16: EQ, NEQ, GT, LT, GTE and LTE leave pc 4 further, the flag the      *)
(* signed comparison of the two registers, and the registers, the          *)
(* remainder and the heap as they were.                                    *)
(***************************************************************************)
Comparisons == { "EQ", "NEQ", "GT", "LT", "GTE", "LTE" }

\* the comparison an opcode names, of integers
Holds(op, x, y) ==
    \/ op = "EQ" /\ x = y
    \/ op = "NEQ" /\ x # y
    \/ op = "GT" /\ x > y
    \/ op = "LT" /\ x < y
    \/ op = "GTE" /\ x >= y
    \/ op = "LTE" /\ x <= y

C16_Comparisons ==
    \A op \in Comparisons :
        Executed(op) =>
            /\ vm_panic = ""
            /\ pc = At + 4
            /\ equal_flag = Holds(op, RegBefore(1), RegBefore(2))
            /\ Kept({ "registers", "remainder", "heap" })

C16_Witness ==
    /\ Executed("LT")
    /\ RegBefore(1) < 0
    /\ RegBefore(2) = MaxI32
    /\ equal_flag
    /\ pc = At + 4

(***************************************************************************)
(* C17: on a program of k whole slots of LOAD, the arithmetic opcodes, the *)
(* comparisons, ALOC, INC and DEC, stepped with run_once only and without  *)
(* a panic, call i <= k executes slot i - 1 and leaves pc = 4i, and a call *)
(* after the k-th changes nothing: pc stays at the length of the program.  *)
(***************************************************************************)
StraightBytes ==
    { OpcodeToByte(op) :
        op \in { "LOAD", "ADD", "SUB", "MUL", "DIV", "ALOC", "INC", "DEC" }
                 \cup Comparisons }

StraightLine(prog) ==
    /\ Len(prog) % 4 = 0
    /\ \A j \in 0..((Len(prog) \div 4) - 1) : prog[4 * j + 1] \in StraightBytes

AllFields == { "registers", "pc", "equal_flag", "remainder", "heap", "program" }

C18_IllegalOpcode ==
    (Decoded /\ SlotByte(0) \notin 0..20) =>
        /\ vm_panic = ""
        /\ before.returned
        /\ pc = At + 1
        /\ Kept({ "registers", "equal_flag", "remainder", "heap", "program" })

C18_Witness ==
    /\ Decoded
    /\ SlotByte(0) = 200
    /\ At = 4
    /\ last_call = "run"
    /\ ~running
    /\ vm_panic = ""
    /\ pc = 5

(***************************************************************************)
(* C19: HLT is terminal: the call that follows an execute_instruction that *)
(* executed HLT, the program buffer unchanged, returns and leaves pc, the  *)
(* registers, the flag, the remainder and the heap as they were.           *)
(***************************************************************************)
C19_HltTerminal ==
    (before.ran /\ before.after_hlt) =>
        /\ vm_panic = ""
        /\ Kept({ "pc", "registers", "equal_flag", "remainder", "heap" })

(***************************************************************************)
(* C20: the slot of a directive-only record starts with a byte that does   *)
(* not depend on the operands of the directive and is the code of no       *)
(* opcode, and the VM that reaches it changes no register, flag, remainder *)
(* or heap: here for the first record of a program, reached by the first   *)
(* run_once.                                                               *)
(***************************************************************************)
DirectiveOnly(ins) == ins.opcode = None /\ ins.directive.type = "Directive"

WithoutOperands(ins) ==
    [ ins EXCEPT !.operand1 = None, !.operand2 = None, !.operand3 = None ]

C20_DirectiveInert ==
    (/\ FirstCallDone("body", "run_once")
     /\ program_parser(raws[1]).st = "ok"
     /\ DirectiveOnly(program_parser(raws[1]).val[1])) =>
        /\ program[1] = to_bytes(WithoutOperands(program_parser(raws[1]).val[1]),
                                 << >>).bytes[1]
        /\ program[1] \notin MnemonicBytes
        /\ vm_panic = ""
        /\ Kept({ "registers", "equal_flag", "remainder", "heap" })

(***************************************************************************)
(* C21: after any sequence of assemble calls on one Assembler,             *)
(* get_assembled_program gives None when no call has returned Some, and    *)
(* otherwise the parse tree of the most recent call that returned Some; a  *)
(* call that returns None leaves the stored program as it was.  A call     *)
(* returns Some exactly when its source parses and the call does not       *)
(* panic, and a panic ends the sequence.                                    *)
(***************************************************************************)
ParsedCalls == { c \in 1..Len(raws) : program_parser(raws[c]).st = "ok" }

C21_StoredProgram ==
    (loads = << >> /\ assembled.ret # "panic") =>
        /\ (assembled.ret = "Some") = (Len(raws) \in ParsedCalls)
        /\ get_assembled_program(asm) =
              IF ParsedCalls = {} THEN None
              ELSE Some(program_parser(raws[Max(ParsedCalls)]).val)

C21_Witness ==
    /\ raws = << SrcFwd, SrcMalformed >>
    /\ assembled.ret = "None"
    /\ get_assembled_program(asm) = Some(program_parser(SrcFwd).val)

(***************************************************************************)
(* C22: a successful assemble of a program of n records returns 64 + 4n    *)
(* bytes: the first four are 45, 50, 49, 45, the next sixty are 0, and the *)
(* instruction body, one 4-byte slot per record from its opcode byte on,   *)
(* starts at offset 64.                                                    *)
(***************************************************************************)
C22_HeaderLayout ==
    (JustAssembled /\ assembled.ret = "Some") =>
        /\ Len(assembled.bytes) = 64 + 4 * Len(LastProgram)
        /\ SubSeq(assembled.bytes, 1, 4) = << 45, 50, 49, 45 >>
        /\ \A k \in 5..64 : assembled.bytes[k] = 0
        /\ \A n \in 1..Len(LastProgram) :
              LastProgram[n].opcode # None =>
                 assembled.bytes[64 + 4 * (n - 1) + 1] =
                    OpcodeToByte(LastProgram[n].opcode.code)

C22_Witness ==
    /\ raws = << SrcTest >>
    /\ assembled.ret = "Some"
    /\ Len(assembled.bytes) = 84
    /\ assembled.bytes[65] = 1

(***************************************************************************)
(* C23: an integer operand, or a label offset found in the symbol table,   *)
(* of value x is encoded as the byte (x div 256) mod 256 followed by the   *)
(* byte x mod 256; and for a literal v of 0..2^31-1, load $r #v assembled, *)
(* its body loaded into a fresh VM and run, leaves registers[r] =          *)
(* v mod 65536, which is within 0..65535.                                  *)
(***************************************************************************)
TwoBytes(x) == << (x \div 256) % 256, x % 256 >>

\* the two bytes the body holds for operand j of record k
EncodedBytes(body, prog, k, j) ==
    LET at == 4 * (k - 1) + OperandStart(prog[k], j)
    IN  << body[at + 1], body[at + 2] >>

C23_SixteenBits ==
    /\ (LastParses /\ assembled.ret = "Some") =>
          \A k \in 1..Len(LastProgram), j \in 1..3 :
              LET token == Operands(LastProgram[k])[j]
              IN  /\ token.type = "IntegerOperand" =>
                        EncodedBytes(LastBody, LastProgram, k, j) = TwoBytes(token.value)
                  /\ token.type = "LabelUsage" =>
                        EncodedBytes(LastBody, LastProgram, k, j)
                            = TwoBytes(symbol_value(asm.symbols, token.name))
    /\ FirstCallDone("body", "run") =>
          \A r \in 0..(NumRegisters - 1), v \in WideLoadValues :
              raws = << load_text(r, v) >> =>
                  /\ vm_panic = ""
                  /\ registers[r] = v % 65536
                  /\ registers[r] \in 0..65535

C23_Witness ==
    /\ FirstCallDone("body", "run")
    /\ raws = << load_text(31, MaxI32) >>
    /\ registers[31] = 65535
    /\ program = << 1, 31, 255, 255 >>

(***************************************************************************)
(* C24: JEQ sets pc to the value of the register it names exactly when the *)
(* equality flag is true; when the jump is not taken, the registers and    *)
(* the flag are as they were and pc is the offset of the following slot,   *)
(* a + 4 for a JEQ at offset a.  (The claim says the same of JNEQ with the *)
(* flag false; no byte decodes to a JNEQ, so no run reaches that arm.)     *)
(***************************************************************************)
C24_ConditionalJump ==
    Executed("JEQ") =>
        /\ vm_panic = ""
        /\ Kept({ "registers", "equal_flag" })
        /\ IF before.vm.equal_flag
           THEN pc = RegBefore(1)
           ELSE pc = At + 4

(***************************************************************************)
(* C25: a JMPF at offset a whose register holds v >= 0 leaves              *)
(* pc = a + 2 + v, and a JMPB whose register holds v with 0 <= v <= a + 2  *)
(* leaves pc = a + 2 - v: the base of a relative jump is the pc after the  *)
(* opcode byte and the register byte (at a = 0 and v = 2, pc 4 for JMPF    *)
(* and pc 0 for JMPB).                                                     *)
(***************************************************************************)
C25_JumpBase ==
    /\ (Executed("JMPF") /\ RegBefore(1) >= 0) =>
          /\ vm_panic = ""
          /\ pc = At + 2 + RegBefore(1)
    /\ (Executed("JMPB") /\ RegBefore(1) >= 0 /\ RegBefore(1) <= At + 2) =>
          /\ vm_panic = ""
          /\ pc = At + 2 - RegBefore(1)

C25_Witness ==
    /\ Executed("JMPB")
    /\ At = 4
    /\ RegBefore(1) = 2
    /\ pc = 4
    /\ vm_panic = ""

(***************************************************************************)
(* C26: JMP sets pc to the value t >= 0 of the register it names, whatever *)
(* t is; and a run or run_once call that finds pc at or beyond the length  *)
(* of the program, as after a JMP to such a t, returns without a fault and *)
(* leaves the whole VM as it was.                                          *)
(***************************************************************************)
C26_JumpUnvalidated ==
    /\ (Executed("JMP") /\ RegBefore(1) >= 0) =>
          /\ vm_panic = ""
          /\ pc = RegBefore(1)
    /\ (before.ran /\ At >= Len(before.vm.program)) =>
          /\ vm_panic = ""
          /\ before.returned
          /\ Kept(AllFields)

C26_Witness ==
    /\ before.ran
    /\ program = Slot(6, 0, 1, 0)
    /\ registers[0] = 1024
    /\ At = 1024
    /\ pc = 1024
    /\ vm_panic = ""

(***************************************************************************)
(* C27: no step of run or run_once (nor any step other than a load)        *)
(* changes the program buffer; add_byte and add_bytes append at its end:   *)
(* the length grows by exactly the number of bytes given, the earlier      *)
(* bytes stay, and pc, registers, flag, remainder and heap are unchanged.  *)
(***************************************************************************)
\* the number of bytes the load just made was given
GivenLength(load) ==
    CASE load.kind = "byte" -> 1
      [] load.kind = "body" -> Len(body_of(assembled.bytes))
      [] load.kind = "assembled" -> Len(assembled.bytes)

ProgramStep ==
    /\ loads' = loads => program' = program
    /\ loads' # loads =>
          /\ Len(program') = Len(program) + GivenLength(loads'[Len(loads')])
          /\ SubSeq(program', 1, Len(program)) = program
          /\ UNCHANGED << pc, registers, equal_flag, remainder, heap >>

C27_ProgramAppendOnly == [][ProgramStep]_vars

C27_Witness ==
    /\ Len(loads) = 2
    /\ loads[1].kind = "body"
    /\ loads[2].kind = "byte"
    /\ before.ran
    /\ pc > 0
    /\ Len(program) = Len(before.vm.program) + 1

(***************************************************************************)
(* C28: after a DIV whose divisor is not zero and whose dest register is   *)
(* neither source register, for every i32 dividend and divisor (but the    *)
(* one pair whose quotient is no i32), the u32 remainder r is within       *)
(* 0 <= r < |src2|.                                                        *)
(***************************************************************************)
\* |y| of an i32 as a u32, in 16-bit halves
Magnitude(y) ==
    IF y = MinI32 THEN [ hi |-> 32768, lo |-> 0 ]
    ELSE [ hi |-> (IF y < 0 THEN -y ELSE y) \div 65536,
           lo |-> (IF y < 0 THEN -y ELSE y) % 65536 ]

\* u < w of two u32
Below(u, w) == u.hi < w.hi \/ (u.hi = w.hi /\ u.lo < w.lo)

C28_RemainderRange ==
    (/\ Executed("DIV")
     /\ SlotByte(1) \notin { SlotByte(2), SlotByte(3) }
     /\ RegBefore(3) # 0
     /\ ~(RegBefore(2) = MinI32 /\ RegBefore(3) = -1)) =>
        /\ vm_panic = ""
        /\ Below(remainder, Magnitude(RegBefore(3)))

(***************************************************************************)
(* C29: on a program of whole 4-byte slots none of which starts with the   *)
(* byte of a jump (JMP, JMPF, JMPB, JEQ; no byte is a JNEQ), and as long   *)
(* as nothing faults, run() terminates; it executes at most len/4          *)
(* instructions, every instruction it executes leaves pc greater than it   *)
(* was, and it stops at the first HLT, at the first unrecognized opcode    *)
(* byte, or when pc has reached the length of the program.                 *)
(***************************************************************************)
JumpBytes == { OpcodeToByte(op) : op \in { "JMP", "JMPF", "JMPB", "JEQ" } }

NoJumps(p) ==
    /\ Len(p) % 4 = 0
    /\ \A k \in 0..((Len(p) \div 4) - 1) : p[4 * k + 1] \notin JumpBytes

\* the last execute_instruction was one of a run() call
InRun == before.ran /\ last_call = "run" /\ (running => ~before.returned)

RunProgress ==
    (NoJumps(program) /\ InRun /\ vm_panic = "") =>
        /\ before.executed <= Len(program) \div 4
        /\ Decoded => pc > At
        /\ running =>
              /\ Decoded
              /\ SlotByte(0) # OpcodeToByte("HLT")
              /\ printed = ""
        /\ ~running =>
              \/ ~Decoded /\ At = Len(program) /\ pc = Len(program)
              \/ Decoded /\ SlotByte(0) = OpcodeToByte("HLT")
              \/ Decoded /\ printed = UnrecognizedMsg

C29_RunTerminates ==
    /\ []RunProgress
    /\ (running /\ NoJumps(program)) ~> ~running

C29_Witness ==
    /\ program = Slot(11, 0, 1, 0) \o Slot(12, 0, 1, 0) \o Slot(13, 31, 1, 0)
    /\ last_call = "run"
    /\ ncalls = 1
    /\ ~running
    /\ vm_panic = ""
    /\ before.executed = 3
    /\ pc = 12

(***************************************************************************)
(* C30: for every variant o of Opcode, the byte o converts into converts   *)
(* back to o (the illegal variant converts into 255, and 255 converts to   *)
(* the illegal variant); for every byte b of 0..20, the Opcode b converts  *)
(* to converts into b; and every byte above 20 converts to the illegal     *)
(* variant.                                                                *)
(***************************************************************************)
C30_OpcodeRoundTrip ==
    /\ codec.steps = << "into", "from" >> => codec.opcode = codec.opcode0
    /\ (codec.steps = << "into" >> /\ codec.opcode0 = "IGL") => codec.byte = 255
    /\ (codec.steps = << "from" >> /\ codec.byte0 = 255) => codec.opcode = "IGL"
    /\ (codec.steps = << "from", "into" >> /\ codec.byte0 \in 0..20) =>
          codec.byte = codec.byte0
    /\ (codec.steps = << "from" >> /\ codec.byte0 > 20) => codec.opcode = "IGL"

C30_Witness ==
    /\ codec.steps = << "into", "from" >>
    /\ codec.opcode0 = "NOP"
    /\ codec.byte = 17
    /\ codec.opcode = "NOP"

=============================================================================
